---- MODULE Spec2Model ----
(***************************************************************************)
(* The GraphQL printer of src/language/printer.js: the table of per-kind   *)
(* "leave" callbacks (printDocASTReducer) and its string helpers (join,    *)
(* block, wrap, indent, printBlockString).                                 *)
(*                                                                         *)
(* A JavaScript string is a sequence of one-character strings.  The value  *)
(* undefined is the one-element sequence <<"undefined">>, which is also    *)
(* what string concatenation turns it into.  An optional array or child    *)
(* node is absent (<<>>) or some(x) (<<x>>).  A thrown TypeError is the    *)
(* outcome TypeError.                                                      *)
(***************************************************************************)
EXTENDS Naturals, Sequences, FiniteSets

VARIABLES kind, node, out, pc, depth

vars == <<kind, node, out, pc, depth>>

\* ------------------------------------------------------------------ bounds

\* Longest array of children (arguments, directives, selections, ...).
MaxItems == 2
\* Longest string value handed to StringValue.
MaxStrLen == 4
\* Deepest nesting of enclosing fields built over a rendered field.
MaxDepth == 2

\* ------------------------------------------------------- JavaScript values

undefined == <<"undefined">>
TypeError == <<"TypeError">>
absent == <<>>
some(x) == <<x>>

Truthy(x) == x # undefined /\ x # <<>>

RECURSIVE ArrayJoin(_, _)
ArrayJoin(items, sep) ==
  IF Len(items) = 0 THEN <<>>
  ELSE IF Len(items) = 1 THEN items[1]
  ELSE items[1] \o sep \o ArrayJoin(Tail(items), sep)

RECURSIVE ReplaceNewlines(_, _)
ReplaceNewlines(s, by) ==
  IF Len(s) = 0 THEN <<>>
  ELSE IF Head(s) = "\n" THEN by \o ReplaceNewlines(Tail(s), by)
  ELSE <<Head(s)>> \o ReplaceNewlines(Tail(s), by)

RECURSIVE EscapeTripleQuotes(_)
EscapeTripleQuotes(s) ==
  IF Len(s) = 0 THEN <<>>
  ELSE IF Len(s) >= 3 /\ s[1] = "\"" /\ s[2] = "\"" /\ s[3] = "\""
    THEN <<"\\", "\"", "\"", "\"">> \o EscapeTripleQuotes(SubSeq(s, 4, Len(s)))
  ELSE <<Head(s)>> \o EscapeTripleQuotes(Tail(s))

ReplaceFinalQuote(s) ==
  IF Len(s) > 0 /\ s[Len(s)] = "\"" THEN s \o <<"\n">> ELSE s

HasNewline(s) == \E i \in 1..Len(s) : s[i] = "\n"

RECURSIVE JSONEscape(_)
JSONEscape(s) ==
  IF Len(s) = 0 THEN <<>>
  ELSE (CASE Head(s) = "\"" -> <<"\\", "\"">>
          [] Head(s) = "\\" -> <<"\\", "\\">>
          [] Head(s) = "\n" -> <<"\\", "n">>
          [] Head(s) = "\t" -> <<"\\", "t">>
          [] OTHER -> <<Head(s)>>) \o JSONEscape(Tail(s))

JSONStringify(s) == <<"\"">> \o JSONEscape(s) \o <<"\"">>

\* ----------------------------------------------------------------- helpers

\* join without the filter of falsy items.
joinUnfiltered(maybeArray, separator) ==
  IF Len(maybeArray) = 0 THEN <<>>
  ELSE ArrayJoin([i \in 1..Len(maybeArray[1]) |-> IF maybeArray[1][i] = undefined
                                                     THEN <<>> ELSE maybeArray[1][i]],
                 IF Truthy(separator) THEN separator ELSE <<>>)

join(maybeArray, separator) ==
  IF Len(maybeArray) = 0 THEN <<>>
  ELSE ArrayJoin(SelectSeq(maybeArray[1], Truthy),
                 IF Truthy(separator) THEN separator ELSE <<>>)

\* indent that prefixes the first line only.
indentFirstLineOnly(maybeString) ==
  IF Truthy(maybeString) THEN <<" ", " ">> \o maybeString ELSE maybeString

\* indent without the guard on an empty string.
indentUnguarded(maybeString) ==
  <<" ", " ">> \o ReplaceNewlines(maybeString, <<"\n", " ", " ">>)

indent(maybeString) ==
  IF Truthy(maybeString)
    THEN <<" ", " ">> \o ReplaceNewlines(maybeString, <<"\n", " ", " ">>)
    ELSE maybeString

\* block that wraps an empty array in braces too.
blockAlwaysBraces(array) ==
  <<"{", "\n">> \o indent(join(array, <<"\n">>)) \o <<"\n", "}">>

block(array) ==
  IF Len(array) # 0 /\ Len(array[1]) # 0
    THEN <<"{", "\n">> \o indent(join(array, <<"\n">>)) \o <<"\n", "}">>
    ELSE <<>>

wrap(start, maybeString, end) ==
  IF Truthy(maybeString)
    THEN start \o maybeString \o (IF Truthy(end) THEN end ELSE <<>>)
    ELSE <<>>

\* printBlockString that always adds the leading and trailing blank line.
printBlockStringAlwaysMultiline(value, isDescription) ==
  LET escaped == EscapeTripleQuotes(value) IN
  <<"\"", "\"", "\"", "\n">>
    \o (IF isDescription THEN escaped ELSE indent(escaped))
    \o <<"\n", "\"", "\"", "\"">>

printBlockString(value, isDescription) ==
  LET escaped == EscapeTripleQuotes(value) IN
  IF Len(value) > 0 /\ (value[1] = " " \/ value[1] = "\t") /\ ~HasNewline(value)
    THEN <<"\"", "\"", "\"">> \o ReplaceFinalQuote(escaped) \o <<"\"", "\"", "\"">>
    ELSE <<"\"", "\"", "\"", "\n">>
         \o (IF isDescription THEN escaped ELSE indent(escaped))
         \o <<"\n", "\"", "\"", "\"">>

\* --------------------------------------------------------- rendering table

Name(n) == n.value

Variable(n) == <<"$">> \o n.name

\* OperationDefinition that takes the short form whatever the operation.
OperationDefinitionAnyOperation(n) ==
  LET op == n.operation
      name == n.name
      varDefs == wrap(<<"(">>, join(n.variableDefinitions, <<",", " ">>), <<")">>)
      directives == join(n.directives, <<" ">>)
      selectionSet == n.selectionSet
  IN IF ~Truthy(name) /\ ~Truthy(directives) /\ ~Truthy(varDefs)
       THEN selectionSet
       ELSE join(some(<<op, join(some(<<name, varDefs>>), undefined),
                        directives, selectionSet>>), <<" ">>)

OperationDefinition(n) ==
  LET op == n.operation
      name == n.name
      varDefs == wrap(<<"(">>, join(n.variableDefinitions, <<",", " ">>), <<")">>)
      directives == join(n.directives, <<" ">>)
      selectionSet == n.selectionSet
  IN IF /\ ~Truthy(name) /\ ~Truthy(directives) /\ ~Truthy(varDefs)
        /\ op = <<"q", "u", "e", "r", "y">>
       THEN selectionSet
       ELSE join(some(<<op, join(some(<<name, varDefs>>), undefined),
                        directives, selectionSet>>), <<" ">>)

VariableDefinition(n) ==
  n.variable \o <<":", " ">> \o n.type \o wrap(<<" ", "=", " ">>, n.defaultValue, undefined)

SelectionSet(n) == block(n.selections)

Field(n) ==
  join(some(<<wrap(<<>>, n.alias, <<":", " ">>) \o n.name
                \o wrap(<<"(">>, join(n.arguments, <<",", " ">>), <<")">>),
              join(n.directives, <<" ">>),
              n.selectionSet>>), <<" ">>)

Argument(n) == n.name \o <<":", " ">> \o n.value

InlineFragment(n) ==
  join(some(<<<<".", ".", ".">>, wrap(<<"o", "n", " ">>, n.typeCondition, undefined),
              join(n.directives, <<" ">>), n.selectionSet>>), <<" ">>)

FragmentDefinition(n) ==
  <<"f", "r", "a", "g", "m", "e", "n", "t", " ">> \o n.name
    \o wrap(<<"(">>, join(n.variableDefinitions, <<",", " ">>), <<")">>) \o <<" ">>
    \o <<"o", "n", " ">> \o n.typeCondition \o <<" ">>
    \o wrap(<<>>, join(n.directives, <<" ">>), <<" ">>)
    \o n.selectionSet

IntValue(n) == n.value

StringValue(n, key) ==
  IF n.block THEN printBlockString(n.value, key = "description")
  ELSE JSONStringify(n.value)

Directive(n) ==
  <<"@">> \o n.name \o wrap(<<"(">>, join(n.arguments, <<",", " ">>), <<")">>)

NamedType(n) == n.name

\* The node's entry is cb(node) with the description before it; what cb
\* throws, the entry throws.
addDescription(n, printed) ==
  IF printed = TypeError THEN TypeError
  ELSE join(some(<<n.description, printed>>), <<"\n">>)

ObjectTypeDefinitionBody(n) ==
  join(some(<<<<"t", "y", "p", "e">>, n.name,
              wrap(<<"i", "m", "p", "l", "e", "m", "e", "n", "t", "s", " ">>,
                   join(n.interfaces, <<" ", "&", " ">>), undefined),
              join(n.directives, <<" ">>),
              block(n.fields)>>), <<" ">>)

ObjectTypeDefinition(n) == addDescription(n, ObjectTypeDefinitionBody(n))

\* FieldDefinition that always lays its arguments out on one line.
FieldDefinitionBodyOneLine(n) ==
  LET args == n.arguments IN
  IF Len(args) = 0 THEN TypeError
  ELSE n.name
         \o wrap(<<"(">>, join(args, <<",", " ">>), <<")">>)
         \o <<":", " ">> \o n.type
         \o wrap(<<" ">>, join(n.directives, <<" ">>), undefined)

\* args.every(...) on an absent array throws a TypeError.
FieldDefinitionBody(n) ==
  LET args == n.arguments IN
  IF Len(args) = 0 THEN TypeError
  ELSE n.name
         \o (IF \A i \in 1..Len(args[1]) : ~HasNewline(args[1][i])
               THEN wrap(<<"(">>, join(args, <<",", " ">>), <<")">>)
               ELSE wrap(<<"(", "\n">>, indent(join(args, <<"\n">>)), <<"\n", ")">>))
         \o <<":", " ">> \o n.type
         \o wrap(<<" ">>, join(n.directives, <<" ">>), undefined)

FieldDefinition(n) == addDescription(n, FieldDefinitionBody(n))

InputValueDefinitionBody(n) ==
  join(some(<<n.name \o <<":", " ">> \o n.type,
              wrap(<<"=", " ">>, n.defaultValue, undefined),
              join(n.directives, <<" ">>)>>), <<" ">>)

InputValueDefinition(n) == addDescription(n, InputValueDefinitionBody(n))

InterfaceTypeDefinitionBody(n) ==
  join(some(<<<<"i", "n", "t", "e", "r", "f", "a", "c", "e">>, n.name,
              join(n.directives, <<" ">>), block(n.fields)>>), <<" ">>)

InterfaceTypeDefinition(n) == addDescription(n, InterfaceTypeDefinitionBody(n))

\* args.every(...) on an absent array throws a TypeError.
DirectiveDefinitionBody(n) ==
  LET args == n.arguments IN
  IF Len(args) = 0 THEN TypeError
  ELSE <<"d", "i", "r", "e", "c", "t", "i", "v", "e", " ", "@">> \o n.name
         \o (IF \A i \in 1..Len(args[1]) : ~HasNewline(args[1][i])
               THEN wrap(<<"(">>, join(args, <<",", " ">>), <<")">>)
               ELSE wrap(<<"(", "\n">>, indent(join(args, <<"\n">>)), <<"\n", ")">>))
         \o <<" ", "o", "n", " ">>
         \o join(n.locations, <<" ", "|", " ">>)

DirectiveDefinition(n) == addDescription(n, DirectiveDefinitionBody(n))

\* ObjectTypeExtension that joins the interfaces with a comma.
ObjectTypeExtensionCommaJoined(n) ==
  join(some(<<<<"e", "x", "t", "e", "n", "d", " ", "t", "y", "p", "e">>, n.name,
              wrap(<<"i", "m", "p", "l", "e", "m", "e", "n", "t", "s", " ">>,
                   join(n.interfaces, <<",", " ">>), undefined),
              join(n.directives, <<" ">>),
              block(n.fields)>>), <<" ">>)

ObjectTypeExtension(n) ==
  join(some(<<<<"e", "x", "t", "e", "n", "d", " ", "t", "y", "p", "e">>, n.name,
              wrap(<<"i", "m", "p", "l", "e", "m", "e", "n", "t", "s", " ">>,
                   join(n.interfaces, <<" ", "&", " ">>), undefined),
              join(n.directives, <<" ">>),
              block(n.fields)>>), <<" ">>)

InterfaceTypeExtension(n) ==
  join(some(<<<<"e", "x", "t", "e", "n", "d", " ", "i", "n", "t", "e", "r", "f", "a", "c", "e">>,
              n.name, join(n.directives, <<" ">>), block(n.fields)>>), <<" ">>)

\* The walker leaves a child before its parent: an absent child stays
\* undefined, a present one is replaced by what its entry returned.
leaveSelectionSet(child) == IF Len(child) = 0 THEN undefined ELSE SelectionSet(child[1])

\* ------------------------------------------------------------------ inputs
\* Children arrive already rendered: the rendered children below are what
\* the table's own entries return for small nodes.

SeqsUpTo(S, n) == UNION {[1..k -> S] : k \in 0..n}

\* An optional array: absent, or present with up to MaxItems items.
MaybeArrays(S) == {absent} \cup {some(a) : a \in SeqsUpTo(S, MaxItems)}

NameOf(c) == Name([value |-> <<c>>])

TypeT == NamedType([name |-> NameOf("T")])

RenderedArguments ==
  {Argument([name |-> NameOf("x"), value |-> IntValue([value |-> <<"1">>])]),
   Argument([name |-> NameOf("y"), value |-> Variable([name |-> NameOf("v")])])}

RenderedDirectives ==
  {Directive([name |-> NameOf("d"), arguments |-> absent]),
   Directive([name |-> NameOf("e"),
              arguments |-> some(<<Argument([name |-> NameOf("x"),
                                             value |-> IntValue([value |-> <<"1">>])])>>)])}

RenderedVariableDefinitions ==
  {VariableDefinition([variable |-> Variable([name |-> NameOf("x")]), type |-> TypeT,
                       defaultValue |-> undefined]),
   VariableDefinition([variable |-> Variable([name |-> NameOf("y")]), type |-> TypeT,
                       defaultValue |-> IntValue([value |-> <<"1">>])])}

LeafField ==
  Field([alias |-> undefined, name |-> NameOf("b"), arguments |-> absent,
         directives |-> absent, selectionSet |-> undefined])

\* A selection set node whose selections are rendered leaf fields.
SelectionSetNodes ==
  {[selections |-> some(a)] : a \in SeqsUpTo({LeafField}, MaxItems)}

RenderedDescriptions ==
  {undefined,
   StringValue([value |-> <<"d">>, block |-> TRUE], "description")}

RenderedInputValues ==
  {InputValueDefinition([description |-> undefined, name |-> NameOf("x"),
                         type |-> TypeT, defaultValue |-> undefined,
                         directives |-> absent]),
   InputValueDefinition([description |-> StringValue([value |-> <<"d">>, block |-> TRUE],
                                                     "description"),
                         name |-> NameOf("y"), type |-> TypeT,
                         defaultValue |-> IntValue([value |-> <<"1">>]),
                         directives |-> absent])}

RenderedFieldDefinitions ==
  {FieldDefinition([description |-> undefined, name |-> NameOf("f"),
                    arguments |-> some(<<>>), type |-> TypeT, directives |-> absent])}

StringChars == {" ", "\t", "\n", "\"", "\\", "a"}

StringValueNodes ==
  {[value |-> v, block |-> b, key |-> k] :
     v \in SeqsUpTo(StringChars, MaxStrLen), b \in BOOLEAN,
     k \in {"description", "value"}}

OperationDefinitionNodes ==
  {[operation |-> op, name |-> nm, variableDefinitions |-> vd, directives |-> ds,
    selectionSet |-> some(ss)] :
     op \in {<<"q", "u", "e", "r", "y">>,
             <<"m", "u", "t", "a", "t", "i", "o", "n">>,
             <<"s", "u", "b", "s", "c", "r", "i", "p", "t", "i", "o", "n">>},
     nm \in {undefined, NameOf("Q")},
     vd \in MaybeArrays(RenderedVariableDefinitions),
     ds \in MaybeArrays(RenderedDirectives),
     ss \in SelectionSetNodes}

FieldNodes ==
  {[alias |-> al, name |-> NameOf("a"), arguments |-> args, directives |-> ds,
    selectionSet |-> ss] :
     al \in {undefined, NameOf("x")},
     args \in MaybeArrays(RenderedArguments),
     ds \in MaybeArrays(RenderedDirectives),
     ss \in {absent} \cup {some(x) : x \in SelectionSetNodes}}

InlineFragmentNodes ==
  {[typeCondition |-> tc, directives |-> ds, selectionSet |-> some(ss)] :
     tc \in {undefined, TypeT},
     ds \in MaybeArrays(RenderedDirectives),
     ss \in SelectionSetNodes}

FragmentDefinitionNodes ==
  {[name |-> NameOf("F"), typeCondition |-> TypeT, variableDefinitions |-> vd,
    directives |-> ds, selectionSet |-> some(ss)] :
     vd \in MaybeArrays(RenderedVariableDefinitions),
     ds \in MaybeArrays(RenderedDirectives),
     ss \in SelectionSetNodes}

\* Object and interface type definitions and extensions.  An extension
\* carries no description.
TypeNodes(descriptions) ==
  {[description |-> de, name |-> NameOf("N"), interfaces |-> is, directives |-> ds,
    fields |-> fs] :
     de \in descriptions,
     is \in MaybeArrays({NameOf("A"), NameOf("B")}),
     ds \in MaybeArrays({Directive([name |-> NameOf("d"), arguments |-> absent])}),
     fs \in MaybeArrays(RenderedFieldDefinitions)}

FieldDefinitionNodes ==
  {[description |-> de, name |-> NameOf("f"), arguments |-> args, type |-> TypeT,
    directives |-> ds] :
     de \in RenderedDescriptions,
     args \in MaybeArrays(RenderedInputValues),
     ds \in MaybeArrays({Directive([name |-> NameOf("d"), arguments |-> absent])})}

DirectiveDefinitionNodes ==
  {[description |-> de, name |-> NameOf("g"), arguments |-> args, locations |-> some(ls)] :
     de \in RenderedDescriptions,
     args \in MaybeArrays(RenderedInputValues),
     ls \in SeqsUpTo({NameOf("Q"), NameOf("F")}, MaxItems) \ {<<>>}}

\* ------------------------------------------------------------ state machine
\* print(ast) walks the tree and calls the entry of a node's kind when it
\* leaves the node, its children already replaced by their renderings.

\* The record the walker hands to the parent's entry: the selection set
\* child, left first, is replaced by what SelectionSet returned.
WithRenderedSelectionSet(n) ==
  [f \in DOMAIN n |-> IF f = "selectionSet" THEN leaveSelectionSet(n[f]) ELSE n[f]]

Init ==
  /\ pc = "visit"
  /\ out = undefined
  /\ depth = 0
  /\ \/ kind = "StringValue" /\ node \in StringValueNodes
     \/ kind = "OperationDefinition" /\ node \in OperationDefinitionNodes
     \/ kind = "Field" /\ node \in FieldNodes
     \/ kind = "InlineFragment" /\ node \in InlineFragmentNodes
     \/ kind = "FragmentDefinition" /\ node \in FragmentDefinitionNodes
     \/ kind = "ObjectTypeDefinition" /\ node \in TypeNodes(RenderedDescriptions)
     \/ kind = "InterfaceTypeDefinition" /\ node \in TypeNodes(RenderedDescriptions)
     \/ kind = "ObjectTypeExtension" /\ node \in TypeNodes({undefined})
     \/ kind = "InterfaceTypeExtension" /\ node \in TypeNodes({undefined})
     \/ kind = "FieldDefinition" /\ node \in FieldDefinitionNodes
     \/ kind = "DirectiveDefinition" /\ node \in DirectiveDefinitionNodes

LeaveStringValue ==
  /\ pc = "visit" /\ kind = "StringValue"
  /\ out' = StringValue(node, node.key)
  /\ pc' = "done"
  /\ UNCHANGED <<kind, node, depth>>

LeaveOperationDefinition ==
  /\ pc = "visit" /\ kind = "OperationDefinition"
  /\ out' = OperationDefinition(WithRenderedSelectionSet(node))
  /\ pc' = "done"
  /\ UNCHANGED <<kind, node, depth>>

LeaveField ==
  /\ pc = "visit" /\ kind = "Field"
  /\ out' = Field(WithRenderedSelectionSet(node))
  /\ pc' = "done"
  /\ UNCHANGED <<kind, node, depth>>

LeaveInlineFragment ==
  /\ pc = "visit" /\ kind = "InlineFragment"
  /\ out' = InlineFragment(WithRenderedSelectionSet(node))
  /\ pc' = "done"
  /\ UNCHANGED <<kind, node, depth>>

LeaveFragmentDefinition ==
  /\ pc = "visit" /\ kind = "FragmentDefinition"
  /\ out' = FragmentDefinition(WithRenderedSelectionSet(node))
  /\ pc' = "done"
  /\ UNCHANGED <<kind, node, depth>>

LeaveObjectTypeDefinition ==
  /\ pc = "visit" /\ kind = "ObjectTypeDefinition"
  /\ out' = ObjectTypeDefinition(node)
  /\ pc' = "done"
  /\ UNCHANGED <<kind, node, depth>>

LeaveInterfaceTypeDefinition ==
  /\ pc = "visit" /\ kind = "InterfaceTypeDefinition"
  /\ out' = InterfaceTypeDefinition(node)
  /\ pc' = "done"
  /\ UNCHANGED <<kind, node, depth>>

LeaveObjectTypeExtension ==
  /\ pc = "visit" /\ kind = "ObjectTypeExtension"
  /\ out' = ObjectTypeExtension(node)
  /\ pc' = "done"
  /\ UNCHANGED <<kind, node, depth>>

LeaveInterfaceTypeExtension ==
  /\ pc = "visit" /\ kind = "InterfaceTypeExtension"
  /\ out' = InterfaceTypeExtension(node)
  /\ pc' = "done"
  /\ UNCHANGED <<kind, node, depth>>

LeaveFieldDefinition ==
  /\ pc = "visit" /\ kind = "FieldDefinition"
  /\ out' = FieldDefinition(node)
  /\ pc' = "done"
  /\ UNCHANGED <<kind, node, depth>>

LeaveDirectiveDefinition ==
  /\ pc = "visit" /\ kind = "DirectiveDefinition"
  /\ out' = DirectiveDefinition(node)
  /\ pc' = "done"
  /\ UNCHANGED <<kind, node, depth>>

\* The rendered field is one of the selections of an enclosing field, which
\* the walker leaves next: alone, before or after a leaf sibling.
LeaveEnclosingField ==
  /\ pc = "done" /\ kind = "Field" /\ depth < MaxDepth
  /\ \E selections \in {<<out>>, <<out, LeafField>>, <<LeafField, out>>} :
       /\ node' = [alias |-> undefined, name |-> NameOf("p"), arguments |-> absent,
                   directives |-> absent,
                   selectionSet |-> some([selections |-> some(selections)])]
       /\ out' = Field(WithRenderedSelectionSet(node'))
  /\ depth' = depth + 1
  /\ UNCHANGED <<kind, pc>>

Next ==
  \/ LeaveStringValue
  \/ LeaveOperationDefinition
  \/ LeaveField
  \/ LeaveEnclosingField
  \/ LeaveInlineFragment
  \/ LeaveFragmentDefinition
  \/ LeaveObjectTypeDefinition
  \/ LeaveInterfaceTypeDefinition
  \/ LeaveObjectTypeExtension
  \/ LeaveInterfaceTypeExtension
  \/ LeaveFieldDefinition
  \/ LeaveDirectiveDefinition

Spec == Init /\ [][Next]_vars

\* -------------------------------------------------------------- properties

Items(maybeArray) == IF Len(maybeArray) = 0 THEN <<>> ELSE maybeArray[1]

AfterSpace(part) == IF part = <<>> THEN <<>> ELSE <<" ">> \o part

Present(maybeString) == IF maybeString = undefined THEN <<>> ELSE maybeString

RECURSIVE Lines(_)
Lines(s) ==
  IF ~HasNewline(s) THEN <<s>>
  ELSE LET i == CHOOSE i \in 1..Len(s) :
                  s[i] = "\n" /\ \A j \in 1..(i - 1) : s[j] # "\n"
       IN <<SubSeq(s, 1, i - 1)>> \o Lines(SubSeq(s, i + 1, Len(s)))

PrefixEveryLine(s) ==
  ArrayJoin([i \in 1..Len(Lines(s)) |-> <<" ", " ">> \o Lines(s)[i]], <<"\n">>)

LeadingSpaces(s) ==
  IF \A i \in 1..Len(s) : s[i] = " " THEN Len(s)
  ELSE (CHOOSE i \in 1..Len(s) : s[i] # " " /\ \A j \in 1..(i - 1) : s[j] = " ") - 1

StartsWith(s, prefix) ==
  Len(s) >= Len(prefix) /\ SubSeq(s, 1, Len(prefix)) = prefix

EndsWith(s, suffix) ==
  Len(s) >= Len(suffix) /\ SubSeq(s, Len(s) - Len(suffix) + 1, Len(s)) = suffix

HasDoubledSpace(s) == \E i \in 1..(Len(s) - 1) : s[i] = " " /\ s[i + 1] = " "

\* No leading or trailing space, and no doubled space where the parts of an
\* entry are joined (its first line; later lines are an indented block).
NoStraySpace(s) ==
  s # <<>> => /\ s[1] # " "
              /\ s[Len(s)] # " "
              /\ ~HasDoubledSpace(Lines(s)[1])

TripleQuote == <<"\"", "\"", "\"">>

QueryOp == <<"q", "u", "e", "r", "y">>

RenderedSelectionSet == leaveSelectionSet(node.selectionSet)

Parenthesized(items) ==
  IF items = <<>> THEN <<>> ELSE <<"(">> \o ArrayJoin(items, <<",", " ">>) \o <<")">>

\* C1: OperationDefinition returns exactly the rendered selection set if and
\* only if the operation is a query with no name, no directive and no
\* variable definition; otherwise the output is the operation keyword
\* followed by the non-empty parts name+(varDefs), directives and selection
\* set, each after exactly one space, with no leading, trailing or doubled
\* space.
C1_OperationShorthand ==
  (kind = "OperationDefinition" /\ pc = "done") =>
    LET shorthand == /\ node.operation = QueryOp
                     /\ node.name = undefined
                     /\ Items(node.directives) = <<>>
                     /\ Items(node.variableDefinitions) = <<>>
        long == node.operation
                  \o AfterSpace(Present(node.name)
                                  \o Parenthesized(Items(node.variableDefinitions)))
                  \o AfterSpace(ArrayJoin(Items(node.directives), <<" ">>))
                  \o AfterSpace(RenderedSelectionSet)
    IN /\ (out = RenderedSelectionSet) <=> shorthand
       /\ ~shorthand => (out = long /\ NoStraySpace(out))

C1_Witness ==
  /\ kind = "OperationDefinition" /\ pc = "done"
  /\ node.operation = QueryOp
  /\ node.name = undefined
  /\ Len(Items(node.variableDefinitions)) = 2
  /\ Len(node.directives) = 0
  /\ StartsWith(out, QueryOp \o <<" ", "(">>)
  /\ EndsWith(out, <<"\n", "}">>)

SingleLineWithLeadingSpace(value) ==
  Len(value) > 0 /\ value[1] = " " /\ ~HasNewline(value)

\* C2 (as amended): a block string whose value is a single line beginning
\* with a space renders without an added leading blank line, the leading
\* space kept right after the opening delimiter, and the closing delimiter
\* follows the value on the same line; a newline precedes the closing
\* delimiter only when the value ends with a double quote.
C2_SingleLineBlockString ==
  (kind = "StringValue" /\ pc = "done" /\ node.block
     /\ SingleLineWithLeadingSpace(node.value)) =>
    /\ StartsWith(out, TripleQuote \o <<" ">>)
    /\ EndsWith(out, TripleQuote)
    /\ IF node.value[Len(node.value)] = "\""
         THEN Len(Lines(out)) = 2 /\ Lines(out)[2] = TripleQuote
         ELSE ~HasNewline(out) /\ Len(out) = Len(EscapeTripleQuotes(node.value)) + 6

C2_Witness ==
  /\ kind = "StringValue" /\ pc = "done" /\ node.block
  /\ node.value = <<" ", "a">>
  /\ out = TripleQuote \o <<" ", "a">> \o TripleQuote

\* C2 (as claimed): such a value renders with the closing delimiter on its
\* own line, as in """ hello + newline + """.
C2_ClosingOnOwnLine ==
  (kind = "StringValue" /\ pc = "done" /\ node.block
     /\ SingleLineWithLeadingSpace(node.value)) =>
    /\ StartsWith(out, TripleQuote \o <<" ">>)
    /\ EndsWith(out, <<"\n">> \o TripleQuote)

DescriptionPrefix == Present(node.description) \o
                       (IF node.description = undefined THEN <<>> ELSE <<"\n">>)

ArgumentsLayout(args) ==
  IF args = <<>> THEN <<>>
  ELSE IF \E i \in 1..Len(args) : HasNewline(args[i])
    THEN <<"(", "\n">> \o PrefixEveryLine(ArrayJoin(args, <<"\n">>)) \o <<"\n", ")">>
    ELSE <<"(">> \o ArrayJoin(args, <<",", " ">>) \o <<")">>

\* C3: FieldDefinition and DirectiveDefinition emit a non-empty argument
\* list on one line, "(" + arguments joined by ", " + ")", when no rendered
\* argument contains a newline, and otherwise as "(" + newline + one
\* argument after the other, every line prefixed by two spaces, + newline +
\* ")"; an empty argument list emits no parentheses.
C3_DualModeArguments ==
  /\ (kind = "FieldDefinition" /\ pc = "done" /\ Len(node.arguments) = 1) =>
       out = DescriptionPrefix \o node.name \o ArgumentsLayout(node.arguments[1])
               \o <<":", " ">> \o node.type
               \o AfterSpace(ArrayJoin(Items(node.directives), <<" ">>))
  /\ (kind = "DirectiveDefinition" /\ pc = "done" /\ Len(node.arguments) = 1) =>
       out = DescriptionPrefix \o <<"d", "i", "r", "e", "c", "t", "i", "v", "e", " ", "@">>
               \o node.name \o ArgumentsLayout(node.arguments[1])
               \o <<" ", "o", "n", " ">>
               \o ArrayJoin(node.locations[1], <<" ", "|", " ">>)

C3_Witness ==
  /\ kind = "FieldDefinition" /\ pc = "done"
  /\ Len(node.arguments) = 1 /\ Len(node.arguments[1]) = 2
  /\ HasNewline(node.arguments[1][2]) /\ ~HasNewline(node.arguments[1][1])
  /\ \E i \in 1..Len(out) : SubSeq(out, i, i + 1) = <<"(", "\n">>

ImplementsSegment(interfaces) ==
  IF interfaces = <<>> THEN <<>>
  ELSE <<"i", "m", "p", "l", "e", "m", "e", "n", "t", "s", " ">>
         \o ArrayJoin(interfaces, <<" ", "&", " ">>)

TypeKeyword ==
  CASE kind = "ObjectTypeDefinition" -> <<"t", "y", "p", "e">>
    [] kind = "InterfaceTypeDefinition" -> <<"i", "n", "t", "e", "r", "f", "a", "c", "e">>
    [] kind = "ObjectTypeExtension" -> <<"e", "x", "t", "e", "n", "d", " ", "t", "y", "p", "e">>
    [] kind = "InterfaceTypeExtension" ->
         <<"e", "x", "t", "e", "n", "d", " ", "i", "n", "t", "e", "r", "f", "a", "c", "e">>

TypeText(implements) ==
  DescriptionPrefix \o TypeKeyword \o <<" ">> \o node.name
    \o AfterSpace(implements)
    \o AfterSpace(ArrayJoin(Items(node.directives), <<" ">>))
    \o AfterSpace(block(node.fields))

\* C4 (as amended): for object type definitions and extensions a non-empty
\* interfaces list is rendered as "implements " + the names joined with
\* " & ", after the type name and before the directives and the member
\* block, and omitted when empty or absent; interface type definitions and
\* extensions render keyword, name, directives and member block and never
\* an implements segment, whatever their interfaces list holds.
C4_ImplementsObjectsOnly ==
  /\ (kind \in {"ObjectTypeDefinition", "ObjectTypeExtension"} /\ pc = "done") =>
       out = TypeText(ImplementsSegment(Items(node.interfaces)))
  /\ (kind \in {"InterfaceTypeDefinition", "InterfaceTypeExtension"} /\ pc = "done") =>
       out = TypeText(<<>>)

C4_Witness ==
  /\ kind = "ObjectTypeExtension" /\ pc = "done"
  /\ Len(Items(node.interfaces)) = 2
  /\ Len(Items(node.directives)) = 1
  /\ Len(Items(node.fields)) = 1
  /\ StartsWith(out, <<"e", "x", "t", "e", "n", "d", " ", "t", "y", "p", "e", " ", "N", " ",
                       "i", "m", "p", "l", "e", "m", "e", "n", "t", "s", " ", "A", " ", "&", " ">>)

\* C4 (as claimed): object and interface type definitions and extensions
\* alike render a non-empty interfaces list as the implements segment.
C4_ImplementsObjectsAndInterfaces ==
  (kind \in {"ObjectTypeDefinition", "ObjectTypeExtension",
             "InterfaceTypeDefinition", "InterfaceTypeExtension"} /\ pc = "done") =>
    out = TypeText(ImplementsSegment(Items(node.interfaces)))

\* C5: an entry given a node with an optional field absent returns a string
\* to which that part contributes nothing (the rendering of the same node
\* with the part empty), and never raises an error.
C5_AbsentFieldsTolerated ==
  pc = "done" =>
    /\ out # TypeError
    /\ (kind = "FieldDefinition" /\ Len(node.arguments) = 0) =>
         out = FieldDefinition([node EXCEPT !.arguments = some(<<>>)])
    /\ (kind = "DirectiveDefinition" /\ Len(node.arguments) = 0) =>
         out = DirectiveDefinition([node EXCEPT !.arguments = some(<<>>)])

EmptySelectionSet ==
  /\ kind \in {"OperationDefinition", "FragmentDefinition", "InlineFragment"}
  /\ pc = "done"
  /\ node.selectionSet[1].selections = some(<<>>)

\* C6 (as amended): an operation, fragment definition or inline fragment
\* whose selection set arrives empty raises no error: the selection set
\* renders as the empty string and the entry returns the text of its other
\* parts, without braces.
C6_EmptySelectionSetRendersEmpty ==
  EmptySelectionSet =>
    /\ out # TypeError
    /\ RenderedSelectionSet = <<>>
    /\ \A i \in 1..Len(out) : out[i] \notin {"{", "}"}
    /\ kind = "OperationDefinition" =>
         out = (IF node.operation = QueryOp /\ node.name = undefined
                     /\ Items(node.directives) = <<>>
                     /\ Items(node.variableDefinitions) = <<>>
                  THEN <<>>
                  ELSE node.operation
                         \o AfterSpace(Present(node.name)
                                         \o Parenthesized(Items(node.variableDefinitions)))
                         \o AfterSpace(ArrayJoin(Items(node.directives), <<" ">>)))

C6_Witness ==
  /\ EmptySelectionSet
  /\ kind = "OperationDefinition"
  /\ node.name # undefined
  /\ out = <<"m", "u", "t", "a", "t", "i", "o", "n", " ", "Q">>

\* C6 (as claimed): an empty selection set in an operation, fragment
\* definition or inline fragment surfaces as an error outcome, with no text.
C6_EmptySelectionSetIsError ==
  EmptySelectionSet => out = TypeError

\* C7: Field renders "alias: " (when an alias is present) + name + "(" +
\* arguments joined by ", " + ")" (when there is an argument), then the
\* joined directives and the selection set, each after exactly one space
\* and omitted when empty, with no leading, trailing or doubled space; with
\* all four absent it is the bare name.
C7_FieldParts ==
  (kind = "Field" /\ pc = "done") =>
    /\ out = (IF node.alias = undefined THEN <<>> ELSE node.alias \o <<":", " ">>)
               \o node.name
               \o Parenthesized(Items(node.arguments))
               \o AfterSpace(ArrayJoin(Items(node.directives), <<" ">>))
               \o AfterSpace(Present(RenderedSelectionSet))
    /\ NoStraySpace(out)
    /\ (/\ node.alias = undefined /\ Items(node.arguments) = <<>>
        /\ Items(node.directives) = <<>> /\ Len(node.selectionSet) = 0) =>
         out = node.name

C7_Witness ==
  /\ kind = "Field" /\ pc = "done" /\ depth = 0
  /\ node.alias # undefined
  /\ Len(Items(node.arguments)) = 2
  /\ Len(node.directives) = 0
  /\ Len(node.selectionSet) = 1 /\ Len(Items(node.selectionSet[1].selections)) = 1
  /\ out = <<"x", ":", " ", "a", "(", "x", ":", " ", "1", ",", " ", "y", ":", " ", "$", "v",
             ")", " ", "{", "\n", " ", " ", "b", "\n", "}">>

BlockStringBody(value, isDescription, emptyBody) ==
  LET escaped == EscapeTripleQuotes(value) IN
  IF isDescription THEN escaped
  ELSE IF value = <<>> THEN emptyBody
  ELSE PrefixEveryLine(escaped)

BlockStringText(value, isDescription, emptyBody) ==
  LET escaped == EscapeTripleQuotes(value) IN
  IF Len(value) > 0 /\ value[1] \in {" ", "\t"} /\ ~HasNewline(value)
    THEN TripleQuote
           \o (IF escaped[Len(escaped)] = "\"" THEN escaped \o <<"\n">> ELSE escaped)
           \o TripleQuote
    ELSE TripleQuote \o <<"\n">> \o BlockStringBody(value, isDescription, emptyBody)
           \o <<"\n">> \o TripleQuote

\* C8 (as amended): printBlockString escapes the triple quotes of the value
\* and takes one of two branches: a value starting with a space or tab and
\* holding no newline gives """ + escaped value (a final quote followed by a
\* newline) + """; any other value gives """ + newline + body + newline +
\* """, the body being the escaped value for a description and otherwise
\* the escaped value with every line prefixed by two spaces, except that an
\* empty value gives an empty body.
C8_BlockStringBranches ==
  (kind = "StringValue" /\ pc = "done" /\ node.block) =>
    out = BlockStringText(node.value, node.key = "description", <<>>)

C8_Witness ==
  /\ kind = "StringValue" /\ pc = "done" /\ node.block
  /\ node.key = "value"
  /\ node.value = <<"\"", "\"", "\"", "\n">>
  /\ out = TripleQuote \o <<"\n", " ", " ", "\\">> \o TripleQuote
             \o <<"\n", " ", " ", "\n">> \o TripleQuote

\* C8 (as claimed): outside a description the body is the escaped value
\* with every line prefixed by two spaces, for every input string.
C8_EveryLinePrefixed ==
  (kind = "StringValue" /\ pc = "done" /\ node.block) =>
    out = BlockStringText(node.value, node.key = "description", <<" ", " ">>)

Closes(line) == SubSeq(line, LeadingSpaces(line) + 1, Len(line)) = <<"}">>

Opens(line) == line # <<>> /\ line[Len(line)] = "{"

\* The nesting depth of line i: the blocks opened and not yet closed before it.
DepthBefore(ls, i) ==
  Cardinality({j \in 1..(i - 1) : Opens(ls[j])})
    - Cardinality({j \in 1..(i - 1) : Closes(ls[j])})

C10_UnambiguousBlockString ==
  (kind = "StringValue" /\ pc = "done" /\ node.block) =>
    /\ Len(out) >= 6
    /\ StartsWith(out, TripleQuote)
    /\ EndsWith(out, TripleQuote)
    /\ LET inner == SubSeq(out, 4, Len(out) - 3) IN
       /\ \A i \in 1..(Len(inner) - 2) :
            SubSeq(inner, i, i + 2) = TripleQuote => (i > 1 /\ inner[i - 1] = "\\")
       /\ inner # <<>> => inner[Len(inner)] \notin {"\"", "\\"}

====
